---- MODULE Spec2Model ----
(***************************************************************************)
(* Model of the document-to-structured-extraction pipeline:                *)
(*   core/utils.py      parse_json_content, set_path, is_found,            *)
(*                      merge_extractions, collect_fields,                 *)
(*                      find_relevant_pages, load_pages_with_ocr           *)
(*   services/gemini.py call_gemini, gemini_ocr_image and the OCR cache    *)
(*   services/mistral.py call_mistral, mistral_ocr_image                   *)
(*   cli_gemini.py / cli_mistral.py   the two drivers (main)               *)
(*                                                                         *)
(* JSON / Python values are tagged records:                                *)
(*   [kind |-> "null"]              None / null                            *)
(*   [kind |-> "bool", b |-> ..]    True / False                           *)
(*   [kind |-> "num",  n |-> ..]    int                                    *)
(*   [kind |-> "str",  s |-> ..]    str (a TLA+ string, read per character)*)
(*   [kind |-> "list", items |-> <<..>>]                                   *)
(*   [kind |-> "dict", d |-> [key |-> value]]                              *)
(* A Python dict keeps insertion order; the model's dict is an unordered   *)
(* function, and where the code iterates a dict the model takes its keys   *)
(* in some fixed order.                                                    *)
(***************************************************************************)
EXTENDS Integers, Sequences, FiniteSets, TLC

VARIABLES
    \* ---- the drivers (cli_gemini.main / cli_mistral.main) ----
    driver,         \* "gemini" | "mistral"; "fill" | "none" in the other specifications
    pc,             \* position of main
    env,            \* environment and command line: [api_key, template_exists, doc_type, ...]
    doc,            \* the document: [pdf, suffix, name, native |-> <<text per page>>, image]
    template_obj,   \* the template being filled (a dict value)
    field_specs,    \* sequence of FieldSpecs [path, label, typ]
    pages,          \* sequence of [no, text]
    futures,        \* per pass-1 chunk: "queued" | "running" | "done" | "merged"
    chunk_out,      \* per chunk: the outcome of run_chunk, [raised, val]
    llm_result,     \* the running extraction result
    ocr_cache,      \* OCR cache directory: image bytes -> text
    fill_idx,       \* number of field_specs already written by the Fill loop
    hist,           \* ghost: what has happened so far in this run
    \* ---- pure-function specifications ----
    arg,            \* the input of the function under study
    ret             \* its result (or NoRet before the call)

vars == <<driver, pc, env, doc, template_obj, field_specs, pages, futures, chunk_out,
          llm_result, ocr_cache, fill_idx, hist, arg, ret>>

orchVars == <<driver, pc, env, doc, template_obj, field_specs, pages, futures, chunk_out,
              llm_result, ocr_cache, fill_idx, hist>>

(***************************************************************************)
(* Values                                                                  *)
(***************************************************************************)
Null == [kind |-> "null"]
Bool(b) == [kind |-> "bool", b |-> b]
Num(n) == [kind |-> "num", n |-> n]
Str(s) == [kind |-> "str", s |-> s]
List(items) == [kind |-> "list", items |-> items]
Dict(d) == [kind |-> "dict", d |-> d]
EmptyDict == Dict(<<>>)

\* no value yet: a call that has not returned
NoRet == [kind |-> "noret"]

IsDict(v) == v.kind = "dict"

\* dict.get(key) with the default None
DictGet(v, key) == IF key \in DOMAIN v.d THEN v.d[key] ELSE Null

\* dict.get(key, default)
DictGetOr(v, key, default) == IF key \in DOMAIN v.d THEN v.d[key] ELSE default

\* d[key] = val
DictSet(v, key, val) ==
    Dict([k \in (DOMAIN v.d) \cup {key} |-> IF k = key THEN val ELSE v.d[k]])

(***************************************************************************)
(* Strings, character by character                                         *)
(***************************************************************************)
Ch(s, i) == SubSeq(s, i, i)

UpperAlpha == "ABCDEFGHIJKLMNOPQRSTUVWXYZ"
LowerAlpha == "abcdefghijklmnopqrstuvwxyz"
Digits == "0123456789"

\* str.strip() with no argument strips these (ASCII whitespace)
Whitespace == {" ", "\t", "\n", "\r", "\f"}

InStr(c, alphabet) == \E i \in 1..Len(alphabet) : Ch(alphabet, i) = c

\* the lower-case letter of every upper-case letter
LowerOf ==
    [c \in {Ch(UpperAlpha, i) : i \in 1..Len(UpperAlpha)} |->
        Ch(LowerAlpha, CHOOSE i \in 1..Len(UpperAlpha) : Ch(UpperAlpha, i) = c)]

LowerChar(c) == IF c \in DOMAIN LowerOf THEN LowerOf[c] ELSE c

RECURSIVE LowerFrom(_, _)
LowerFrom(s, i) == IF i > Len(s) THEN "" ELSE LowerChar(Ch(s, i)) \o LowerFrom(s, i + 1)

\* str.lower()
Lower(s) == LowerFrom(s, 1)

RECURSIVE LStrip(_)
LStrip(s) ==
    IF Len(s) > 0 /\ Ch(s, 1) \in Whitespace THEN LStrip(SubSeq(s, 2, Len(s))) ELSE s

RECURSIVE RStrip(_)
RStrip(s) ==
    IF Len(s) > 0 /\ Ch(s, Len(s)) \in Whitespace THEN RStrip(SubSeq(s, 1, Len(s) - 1)) ELSE s

Strip(s) == RStrip(LStrip(s))

\* needle in haystack
Contains(haystack, needle) ==
    \E i \in 1..(Len(haystack) - Len(needle) + 1) :
        SubSeq(haystack, i, i + Len(needle) - 1) = needle

RECURSIVE NatToStr(_)
NatToStr(n) ==
    IF n < 10 THEN Ch(Digits, n + 1)
    ELSE NatToStr(n \div 10) \o Ch(Digits, (n % 10) + 1)

IntToStr(n) == IF n < 0 THEN "-" \o NatToStr(-n) ELSE NatToStr(n)

\* a sequence holding the elements of a finite set, in some order
RECURSIVE SetToSeq(_)
SetToSeq(S) ==
    IF S = {} THEN <<>>
    ELSE LET x == CHOOSE y \in S : TRUE IN <<x>> \o SetToSeq(S \ {x})

\* Python's str(v); inside a list or a dict a string is shown quoted (repr)
RECURSIVE PyRepr(_, _)
PyRepr(v, quoted) ==
    CASE v.kind = "null" -> "None"
      [] v.kind = "bool" -> IF v.b THEN "True" ELSE "False"
      [] v.kind = "num" -> IntToStr(v.n)
      [] v.kind = "str" -> IF quoted THEN "'" \o v.s \o "'" ELSE v.s
      [] v.kind = "list" ->
            LET RECURSIVE Items(_)
                Items(i) ==
                    IF i > Len(v.items) THEN ""
                    ELSE (IF i > 1 THEN ", " ELSE "") \o PyRepr(v.items[i], TRUE) \o Items(i + 1)
            IN "[" \o Items(1) \o "]"
      [] v.kind = "dict" ->
            LET ks == SetToSeq(DOMAIN v.d)
                RECURSIVE Items(_)
                Items(i) ==
                    IF i > Len(ks) THEN ""
                    ELSE (IF i > 1 THEN ", " ELSE "") \o "'" \o ks[i] \o "': "
                         \o PyRepr(v.d[ks[i]], TRUE) \o Items(i + 1)
            IN "{" \o Items(1) \o "}"

PyStr(v) == PyRepr(v, FALSE)

(***************************************************************************)
(* is_found                                                                *)
(***************************************************************************)
NotFoundWords == {"", "not found"}

\* faulty variant: compares without trimming and lowercasing
IsFoundNoNormalise(value) ==
    CASE value.kind = "null" -> FALSE
      [] value.kind = "str" -> value.s \notin NotFoundWords
      [] value.kind = "list" -> Len(value.items) > 0
      [] value.kind = "dict" ->
            \E k \in DOMAIN value.d : PyStr(value.d[k]) \notin NotFoundWords
      [] OTHER -> TRUE

IsFound(value) ==
    CASE value.kind = "null" -> FALSE
      [] value.kind = "str" -> Lower(Strip(value.s)) \notin NotFoundWords
      [] value.kind = "list" -> Len(value.items) > 0
      [] value.kind = "dict" ->
            \E k \in DOMAIN value.d : Lower(Strip(PyStr(value.d[k]))) \notin NotFoundWords
      [] OTHER -> TRUE

(***************************************************************************)
(* json.loads: a recursive-descent reading of the text, as Python's json   *)
(* scanner does it. A parse result is [ok, v, i]: i is the index after the *)
(* value. Numbers with a fraction or an exponent, NaN and the infinities   *)
(* are floats, kept by their text; \u escapes are outside the alphabet of  *)
(* the texts studied.                                                      *)
(***************************************************************************)
Float(repr) == [kind |-> "float", repr |-> repr]

Fail == [ok |-> FALSE, v |-> Null, i |-> 0]
Ok(v, i) == [ok |-> TRUE, v |-> v, i |-> i]

JsonWhitespace == {" ", "\t", "\n", "\r"}

RECURSIVE SkipWs(_, _)
SkipWs(s, i) == IF i <= Len(s) /\ Ch(s, i) \in JsonWhitespace THEN SkipWs(s, i + 1) ELSE i

StartsWith(s, i, word) ==
    i + Len(word) - 1 <= Len(s) /\ SubSeq(s, i, i + Len(word) - 1) = word

IsDigit(c) == InStr(c, Digits)
DigitVal(c) == (CHOOSE k \in 1..10 : Ch(Digits, k) = c) - 1

\* index after the run of digits starting at i
RECURSIVE SkipDigits(_, _)
SkipDigits(s, i) == IF i <= Len(s) /\ IsDigit(Ch(s, i)) THEN SkipDigits(s, i + 1) ELSE i

RECURSIVE DigitsToNat(_)
DigitsToNat(ds) ==
    IF Len(ds) = 0 THEN 0
    ELSE 10 * DigitsToNat(SubSeq(ds, 1, Len(ds) - 1)) + DigitVal(Ch(ds, Len(ds)))

\* the string literal whose opening quote is at i - 1
RECURSIVE ScanString(_, _, _)
ScanString(s, i, acc) ==
    IF i > Len(s) THEN Fail
    ELSE LET c == Ch(s, i) IN
         IF c = "\"" THEN Ok(Str(acc), i + 1)
         ELSE IF c \in {"\t", "\n", "\r", "\f"} THEN Fail          \* control character, strict mode
         ELSE IF c = "\\" THEN
            IF i + 1 > Len(s) THEN Fail
            ELSE LET e == Ch(s, i + 1) IN
                 CASE e \in {"\"", "\\", "/"} -> ScanString(s, i + 2, acc \o e)
                   [] e = "n" -> ScanString(s, i + 2, acc \o "\n")
                   [] e = "t" -> ScanString(s, i + 2, acc \o "\t")
                   [] e = "r" -> ScanString(s, i + 2, acc \o "\r")
                   [] e = "f" -> ScanString(s, i + 2, acc \o "\f")
                   [] OTHER -> Fail
         ELSE ScanString(s, i + 1, acc \o c)

\* A number starting at i (which holds "-" or a digit): the sign, the integer
\* part (j..k-1), the fraction (up to f-1), the exponent (up to x-1).
ExponentEnd(s, f) ==
    IF f + 1 <= Len(s) /\ Ch(s, f) \in {"e", "E"} /\ IsDigit(Ch(s, f + 1))
    THEN SkipDigits(s, f + 1)
    ELSE IF f + 2 <= Len(s) /\ Ch(s, f) \in {"e", "E"} /\ Ch(s, f + 1) \in {"+", "-"}
            /\ IsDigit(Ch(s, f + 2))
    THEN SkipDigits(s, f + 2)
    ELSE f

NumberUpTo(s, i, j, k, x) ==
    IF x > k THEN Ok(Float(SubSeq(s, i, x - 1)), x)
    ELSE Ok(Num((IF j > i THEN -1 ELSE 1) * DigitsToNat(SubSeq(s, j, k - 1))), k)

NumberAfterInt(s, i, j, k) ==
    IF k = j THEN Fail
    ELSE IF k + 1 <= Len(s) /\ Ch(s, k) = "." /\ IsDigit(Ch(s, k + 1))
    THEN NumberUpTo(s, i, j, k, ExponentEnd(s, SkipDigits(s, k + 1)))
    ELSE NumberUpTo(s, i, j, k, ExponentEnd(s, k))

NumberAfterSign(s, i, j) ==
    NumberAfterInt(s, i, j, IF j <= Len(s) /\ Ch(s, j) = "0" THEN j + 1 ELSE SkipDigits(s, j))

ScanNumber(s, i) == NumberAfterSign(s, i, IF Ch(s, i) = "-" THEN i + 1 ELSE i)

RECURSIVE ParseValue(_, _)
RECURSIVE ParseMembers(_, _, _)
RECURSIVE ParseElements(_, _, _)

\* after a member (acc holds it), n at the next token: "}" ends the object,
\* "," announces another member
MembersAfterValue(s, n, acc) ==
    IF n > Len(s) THEN Fail
    ELSE IF Ch(s, n) = "}" THEN Ok(acc, n + 1)
    ELSE IF Ch(s, n) = "," THEN ParseMembers(s, SkipWs(s, n + 1), acc)
    ELSE Fail

MemberValue(s, acc, key, val) ==
    IF ~val.ok THEN Fail
    ELSE MembersAfterValue(s, SkipWs(s, val.i), DictSet(acc, key, val.v))

MemberAfterKey(s, acc, key, c) ==
    IF ~(c <= Len(s) /\ Ch(s, c) = ":") THEN Fail
    ELSE MemberValue(s, acc, key, ParseValue(s, SkipWs(s, c + 1)))

MemberKey(s, acc, key) ==
    IF ~key.ok THEN Fail ELSE MemberAfterKey(s, acc, key.v.s, SkipWs(s, key.i))

\* the members of an object, i at the opening quote of the next key
ParseMembers(s, i, acc) ==
    IF ~(i <= Len(s) /\ Ch(s, i) = "\"") THEN Fail
    ELSE MemberKey(s, acc, ScanString(s, i + 1, ""))

ElementsAfterValue(s, n, acc) ==
    IF n > Len(s) THEN Fail
    ELSE IF Ch(s, n) = "]" THEN Ok(List(acc), n + 1)
    ELSE IF Ch(s, n) = "," THEN ParseElements(s, SkipWs(s, n + 1), acc)
    ELSE Fail

ElementValue(s, acc, val) ==
    IF ~val.ok THEN Fail
    ELSE ElementsAfterValue(s, SkipWs(s, val.i), Append(acc, val.v))

\* the elements of an array, i at the next element
ParseElements(s, i, acc) == ElementValue(s, acc, ParseValue(s, i))

ObjectFrom(s, n) ==
    IF n <= Len(s) /\ Ch(s, n) = "}" THEN Ok(EmptyDict, n + 1)
    ELSE ParseMembers(s, n, EmptyDict)

ArrayFrom(s, n) ==
    IF n <= Len(s) /\ Ch(s, n) = "]" THEN Ok(List(<<>>), n + 1)
    ELSE ParseElements(s, n, <<>>)

ValueAt(s, i, c) ==
    CASE c = "\"" -> ScanString(s, i + 1, "")
      [] c = "{" -> ObjectFrom(s, SkipWs(s, i + 1))
      [] c = "[" -> ArrayFrom(s, SkipWs(s, i + 1))
      [] c = "n" /\ StartsWith(s, i, "null") -> Ok(Null, i + 4)
      [] c = "t" /\ StartsWith(s, i, "true") -> Ok(Bool(TRUE), i + 4)
      [] c = "f" /\ StartsWith(s, i, "false") -> Ok(Bool(FALSE), i + 5)
      [] c = "N" /\ StartsWith(s, i, "NaN") -> Ok(Float("NaN"), i + 3)
      [] c = "I" /\ StartsWith(s, i, "Infinity") -> Ok(Float("Infinity"), i + 8)
      [] c = "-" /\ StartsWith(s, i, "-Infinity") -> Ok(Float("-Infinity"), i + 9)
      [] c = "-" \/ IsDigit(c) -> ScanNumber(s, i)
      [] OTHER -> Fail

ParseValue(s, i) == IF i > Len(s) THEN Fail ELSE ValueAt(s, i, Ch(s, i))

\* the whole text must be one value, whitespace around it
WholeText(text, r) == IF r.ok /\ SkipWs(text, r.i) > Len(text) THEN Ok(r.v, r.i) ELSE Fail

\* json.loads(text): ok = FALSE stands for JSONDecodeError
JsonLoads(text) == WholeText(text, ParseValue(text, SkipWs(text, 1)))

(***************************************************************************)
(* parse_json_content                                                      *)
(***************************************************************************)
\* str.find / str.rfind, 1-based; 0 when the character is absent (Python's -1)
Find(s, c) == IF InStr(c, s) THEN CHOOSE i \in 1..Len(s) : Ch(s, i) = c /\ ~InStr(c, SubSeq(s, 1, i - 1)) ELSE 0
RFind(s, c) == IF InStr(c, s) THEN CHOOSE i \in 1..Len(s) : Ch(s, i) = c /\ ~InStr(c, SubSeq(s, i + 1, Len(s))) ELSE 0

\* lines 57-65: the fallback on the text from the first "{" to the last "}"
SnippetOrEmpty(snippet) == IF snippet.ok THEN snippet.v ELSE EmptyDict

BracesFallback(content, start, end) ==
    IF start # 0 /\ end # 0 /\ end > start
    THEN SnippetOrEmpty(JsonLoads(SubSeq(content, start, end)))
    ELSE EmptyDict

StrictOrFallback(content, strict) ==
    IF strict.ok THEN strict.v
    ELSE BracesFallback(content, Find(content, "{"), RFind(content, "}"))

ParseJsonContent(content) == StrictOrFallback(content, JsonLoads(content))

(***************************************************************************)
(* set_path                                                                *)
(***************************************************************************)
\* path.split(".")
RECURSIVE SplitFrom(_, _, _)
SplitFrom(path, i, cur) ==
    IF i > Len(path) THEN <<cur>>
    ELSE IF Ch(path, i) = "." THEN <<cur>> \o SplitFrom(path, i + 1, "")
    ELSE SplitFrom(path, i + 1, cur \o Ch(path, i))

Split(path) == SplitFrom(path, 1, "")

Placeholder(t) == Dict([expected_type |-> Str(t)])

SourceRecord(page, excerpt) == Dict([page |-> page, excerpt |-> excerpt])
FreshRecord(value, page, excerpt) ==
    Dict([value |-> value, source |-> SourceRecord(page, excerpt)])

\* faulty variant: the leaf is always replaced by a fresh record
WriteLeafAlwaysFresh(cursor, key, value, page, excerpt) ==
    DictSet(cursor, key, FreshRecord(value, page, excerpt))

\* faulty variant: an existing mapping keeps the value it had
WriteLeafKeepsValue(cursor, key, value, page, excerpt) ==
    LET leaf == DictGet(cursor, key) IN
    IF IsDict(leaf)
    THEN DictSet(cursor, key,
            DictSet(DictSet(leaf, "value", DictGetOr(leaf, "value", value)),
                    "source", SourceRecord(page, excerpt)))
    ELSE DictSet(cursor, key, FreshRecord(value, page, excerpt))

\* lines 72-82: the write at the leaf, cursor a dict and key the last part
WriteLeaf(cursor, key, value, page, excerpt) ==
    LET leaf == DictGet(cursor, key) IN
    IF IsDict(leaf)
    THEN LET withValue == DictSet(leaf, "value", value)
             src == DictGet(withValue, "source")
         IN  IF IsDict(src)
             THEN DictSet(cursor, key,
                     DictSet(withValue, "source",
                         DictSet(DictSet(src, "page", page), "excerpt", excerpt)))
             ELSE DictSet(cursor, key, DictSet(withValue, "source", SourceRecord(page, excerpt)))
    ELSE DictSet(cursor, key, FreshRecord(value, page, excerpt))

\* faulty variant: a missing or present intermediate mapping is replaced by an empty one
DescendReset(cursor, part) == EmptyDict

\* cursor.setdefault(part, {}): the child the walk continues in
Descend(cursor, part) == DictGetOr(cursor, part, EmptyDict)

\* The walk of lines 70-71 followed by the write; [ok, root]. ok = FALSE is the
\* AttributeError raised when the cursor is not a mapping (str, list, None have
\* no setdefault / get); nothing has been written by then, because a cursor that
\* is not a mapping was in the template already, and so were all its ancestors.
RECURSIVE SetIn(_, _, _, _, _)
SetIn(cursor, parts, value, page, excerpt) ==
    IF ~IsDict(cursor) THEN [ok |-> FALSE, root |-> cursor]
    ELSE IF Len(parts) = 1
    THEN [ok |-> TRUE, root |-> WriteLeaf(cursor, parts[1], value, page, excerpt)]
    ELSE LET sub == SetIn(Descend(cursor, parts[1]), Tail(parts), value, page, excerpt) IN
         IF sub.ok THEN [ok |-> TRUE, root |-> DictSet(cursor, parts[1], sub.root)]
         ELSE [ok |-> FALSE, root |-> cursor]

SetPath(root, path, value, page, excerpt) == SetIn(root, Split(path), value, page, excerpt)

\* the dot-path accessor: [ok, v], ok = FALSE when the path leads nowhere
RECURSIVE NodeAt(_, _)
NodeAt(node, parts) ==
    IF Len(parts) = 0 THEN [ok |-> TRUE, v |-> node]
    ELSE IF IsDict(node) /\ parts[1] \in DOMAIN node.d
    THEN NodeAt(node.d[parts[1]], Tail(parts))
    ELSE [ok |-> FALSE, v |-> Null]

GetPath(root, path) == NodeAt(root, Split(path))

(***************************************************************************)
(* collect_fields, merge_extractions, find_relevant_pages                  *)
(***************************************************************************)
FieldSpec(path, typ) == [path |-> path, label |-> path, typ |-> typ]

\* the FieldSpecs of the mapping obj, its keys visited in some order
RECURSIVE CollectFields(_, _)

\* lines 29-34 for one key of obj
CollectAt(path, v) ==
    IF StartsWith(path, 1, "meta.") THEN <<>>
    ELSE IF IsDict(v) /\ "expected_type" \in DOMAIN v.d
    THEN <<FieldSpec(path, DictGetOr(v, "expected_type", Str("")))>>
    ELSE IF IsDict(v) THEN CollectFields(v, path)
    ELSE <<>>

RECURSIVE CollectKeys(_, _, _)
CollectKeys(obj, prefix, keys) ==
    IF keys = <<>> THEN <<>>
    ELSE CollectAt(IF prefix # "" THEN prefix \o "." \o Head(keys) ELSE Head(keys),
                   obj.d[Head(keys)])
         \o CollectKeys(obj, prefix, Tail(keys))

CollectFields(obj, prefix) == CollectKeys(obj, prefix, SetToSeq(DOMAIN obj.d))

\* faulty variant: every dict-shaped entry of the update is copied, found or not
MergeExtractionsNoGate(base, update) ==
    IF ~IsDict(update) THEN base
    ELSE Dict([k \in (DOMAIN base.d) \cup {u \in DOMAIN update.d : IsDict(update.d[u])} |->
                  IF k \in DOMAIN update.d /\ IsDict(update.d[k]) THEN update.d[k]
                  ELSE base.d[k]])

\* faulty variant: a key the base already holds is never overwritten
MergeExtractionsFirstWins(base, update) ==
    IF ~IsDict(update) THEN base
    ELSE Dict([k \in (DOMAIN base.d)
                     \cup {u \in DOMAIN update.d :
                              IsDict(update.d[u]) /\ IsFound(DictGet(update.d[u], "value"))} |->
                  IF k \in DOMAIN base.d THEN base.d[k] ELSE update.d[k]])

\* faulty variant: an entry of the update that is not dict-shaped is taken as a
\* bare value and wrapped into a record
MergeExtractionsWrapsRaw(base, update) ==
    IF ~IsDict(update) THEN base
    ELSE Dict([k \in (DOMAIN base.d)
                     \cup {u \in DOMAIN update.d :
                              ~IsDict(update.d[u])
                              \/ IsFound(DictGet(update.d[u], "value"))} |->
                  IF k \notin DOMAIN update.d THEN base.d[k]
                  ELSE IF ~IsDict(update.d[k]) THEN Dict([value |-> update.d[k]])
                  ELSE IF IsFound(DictGet(update.d[k], "value")) THEN update.d[k]
                  ELSE base.d[k]])

\* the loop of lines 98-102 over the keys still to visit
RECURSIVE MergeKeys(_, _, _)
MergeKeys(base, update, keys) ==
    IF keys = <<>> THEN base
    ELSE LET key == Head(keys)
             val == update.d[key]
         IN  IF ~IsDict(val) THEN MergeKeys(base, update, Tail(keys))
             ELSE IF IsFound(DictGet(val, "value"))
             THEN MergeKeys(DictSet(base, key, val), update, Tail(keys))
             ELSE MergeKeys(base, update, Tail(keys))

MergeExtractions(base, update) ==
    IF ~IsDict(update) THEN base
    ELSE MergeKeys(base, update, SetToSeq(DOMAIN update.d))

IsAlnum(c) == InStr(c, UpperAlpha) \/ InStr(c, LowerAlpha) \/ InStr(c, Digits)

\* re.split(r"[^a-zA-Z0-9]+", text), as the set of its pieces
RECURSIVE AlnumRuns(_, _, _)
AlnumRuns(text, i, cur) ==
    IF i > Len(text) THEN {cur}
    ELSE IF IsAlnum(Ch(text, i)) THEN AlnumRuns(text, i + 1, cur \o Ch(text, i))
    ELSE {cur} \cup AlnumRuns(text, i + 1, "")

MinTokenLen == 3

LabelTokens(specs) ==
    UNION {{t \in AlnumRuns(Lower(specs[i].label), 1, "") : Len(t) > MinTokenLen} :
              i \in 1..Len(specs)}

\* any(t in low for t in tokens)
AnyTokenIn(low, tokens) == \E t \in tokens : Contains(low, t)

PagesWith(pgs, tokens) ==
    LET Relevant(pg) == AnyTokenIn(Lower(pg.text), tokens) IN SelectSeq(pgs, Relevant)

FindRelevantPages(pgs, specs) == PagesWith(pgs, LabelTokens(specs))

(***************************************************************************)
(* flatten_pages                                                           *)
(***************************************************************************)
DefaultMaxChars == 32000

\* f"[page {page_no}]\n{text.strip()}\n"
Snippet(pg) == "[page " \o NatToStr(pg.no) \o "]\n" \o Strip(pg.text) \o "\n"

\* "\n".join(chunks)
RECURSIVE JoinLines(_)
JoinLines(chunks) ==
    IF chunks = <<>> THEN ""
    ELSE IF Len(chunks) = 1 THEN chunks[1]
    ELSE chunks[1] \o "\n" \o JoinLines(Tail(chunks))

\* the loop from page i on: total counts the snippets seen, the one that breaks included
RECURSIVE FlattenLoop(_, _, _, _, _)
FlattenLoop(pgs, i, total, chunks, max_chars) ==
    IF i > Len(pgs) THEN chunks
    ELSE IF total + Len(Snippet(pgs[i])) > max_chars THEN chunks
    ELSE FlattenLoop(pgs, i + 1, total + Len(Snippet(pgs[i])),
                     Append(chunks, Snippet(pgs[i])), max_chars)

\* faulty variant: a page that does not fit is skipped and the loop goes on
RECURSIVE FlattenLoopSkips(_, _, _, _, _)
FlattenLoopSkips(pgs, i, total, chunks, max_chars) ==
    IF i > Len(pgs) THEN chunks
    ELSE IF total + Len(Snippet(pgs[i])) > max_chars
    THEN FlattenLoopSkips(pgs, i + 1, total, chunks, max_chars)
    ELSE FlattenLoopSkips(pgs, i + 1, total + Len(Snippet(pgs[i])),
                          Append(chunks, Snippet(pgs[i])), max_chars)

FlattenPagesSkipsLong(pgs, max_chars) == JoinLines(FlattenLoopSkips(pgs, 1, 0, <<>>, max_chars))

FlattenPages(pgs, max_chars) == JoinLines(FlattenLoop(pgs, 1, 0, <<>>, max_chars))

(***************************************************************************)
(* OCR callbacks and load_pages_with_ocr                                   *)
(*                                                                         *)
(* An OCR outcome is what the vision backend does when asked:              *)
(*   [stage |-> "render"]            page_to_png_bytes / read_bytes raises *)
(*   [stage |-> "ocr"]               the backend call raises               *)
(*   [stage |-> "ok", text |-> t]    the backend transcribes t             *)
(* An OCR call returns [raised, text, cache, backend]: backend tells       *)
(* whether the vision backend was reached.                                 *)
(***************************************************************************)
OcrThreshold == 80
DefaultMaxPages == 12

\* mistral_ocr_image: the credential is read at every call
MistralOcrImage(api_key, cache, image, outcome) ==
    IF ~api_key THEN [raised |-> TRUE, text |-> "", cache |-> cache, backend |-> FALSE]
    ELSE IF outcome.stage = "ok"
    THEN [raised |-> FALSE, text |-> outcome.text, cache |-> cache, backend |-> TRUE]
    ELSE [raised |-> TRUE, text |-> "", cache |-> cache, backend |-> TRUE]

\* faulty variant: an empty stored transcription is taken for a miss
ReadOcrCacheNonEmpty(cache_dir, cache, image) ==
    IF cache_dir /\ image \in DOMAIN cache /\ cache[image] # ""
    THEN [hit |-> TRUE, text |-> cache[image]]
    ELSE [hit |-> FALSE, text |-> ""]

\* read_ocr_cache / write_ocr_cache on a healthy directory; cache_dir = FALSE is
\* the unset or empty cache_dir
ReadOcrCache(cache_dir, cache, image) ==
    IF cache_dir /\ image \in DOMAIN cache THEN [hit |-> TRUE, text |-> cache[image]]
    ELSE [hit |-> FALSE, text |-> ""]

WriteOcrCache(cache_dir, cache, image, text) ==
    IF ~cache_dir THEN cache
    ELSE [i \in (DOMAIN cache) \cup {image} |-> IF i = image THEN text ELSE cache[i]]

GeminiOcrImage(cache_dir, cache, image, outcome) ==
    LET cached == ReadOcrCache(cache_dir, cache, image) IN
    IF cached.hit
    THEN [raised |-> FALSE, text |-> cached.text, cache |-> cache, backend |-> FALSE]
    ELSE IF outcome.stage = "ok"
    THEN [raised |-> FALSE, text |-> outcome.text,
          cache |-> WriteOcrCache(cache_dir, cache, image, outcome.text), backend |-> TRUE]
    ELSE [raised |-> TRUE, text |-> "", cache |-> cache, backend |-> TRUE]

OcrCallback(drv, e, cache, image, outcome) ==
    IF drv = "gemini" THEN GeminiOcrImage(e.cache_dir, cache, image, outcome)
    ELSE MistralOcrImage(e.api_key, cache, image, outcome)

Page(no, text) == [no |-> no, text |-> text]

\* line 134-135: the OCR text is appended unless empty or already in the text
AppendOcr(text, ocr_text) ==
    IF ocr_text # "" /\ ~Contains(text, ocr_text)
    THEN (IF text # "" THEN Strip(text \o "\n" \o ocr_text) ELSE ocr_text)
    ELSE text

\* lines 130-138 for one page whose OCR call returned or raised
AfterOcr(acc, idx, text, call) ==
    [pages |-> Append(acc.pages, Page(idx, IF call.raised THEN text ELSE AppendOcr(text, call.text))),
     cache |-> call.cache,
     invoked |-> TRUE,
     backend |-> acc.backend \/ call.backend]

\* faulty variant: the page is appended inside the try block, so a page whose
\* rendering or OCR raises is dropped
LoadPdfPageDropsFailed(d, idx, ocr_all, drv, e, outcome, acc, text) ==
    IF ~(ocr_all \/ Len(text) < OcrThreshold)
    THEN [acc EXCEPT !.pages = Append(@, Page(idx, text))]
    ELSE IF outcome.stage = "render" THEN acc
    ELSE IF OcrCallback(drv, e, acc.cache, d.image[idx], outcome).raised
    THEN [acc EXCEPT !.invoked = TRUE,
                     !.backend = @ \/ OcrCallback(drv, e, acc.cache, d.image[idx], outcome).backend]
    ELSE AfterOcr(acc, idx, text, OcrCallback(drv, e, acc.cache, d.image[idx], outcome))

\* lines 128-138 for page idx: acc with the page appended
LoadPdfPage(d, idx, ocr_all, drv, e, outcome, acc, text) ==
    IF ~(ocr_all \/ Len(text) < OcrThreshold) \/ outcome.stage = "render"
    THEN [acc EXCEPT !.pages = Append(@, Page(idx, text))]
    ELSE AfterOcr(acc, idx, text, OcrCallback(drv, e, acc.cache, d.image[idx], outcome))

\* lines 125-138, from page idx on; acc = [pages, cache, invoked, backend]
RECURSIVE LoadPdfFrom(_, _, _, _, _, _, _, _)
LoadPdfFrom(d, idx, max_pages, ocr_all, drv, e, outcomes, acc) ==
    IF idx > Len(d.native) \/ (max_pages # 0 /\ idx > max_pages) THEN acc
    ELSE LoadPdfFrom(d, idx + 1, max_pages, ocr_all, drv, e, outcomes,
            LoadPdfPage(d, idx, ocr_all, drv, e, outcomes[idx], acc, Strip(d.native[idx])))

\* lines 140-145: the whole file as one page
ImagePage(cache, call) ==
    [pages |-> <<Page(1, IF call.raised THEN "" ELSE call.text)>>,
     cache |-> call.cache, invoked |-> TRUE, backend |-> call.backend]

LoadPagesWithOcr(d, max_pages, ocr_all, drv, e, cache, outcomes) ==
    IF d.pdf
    THEN LoadPdfFrom(d, 1, max_pages, ocr_all, drv, e, outcomes,
            [pages |-> <<>>, cache |-> cache, invoked |-> FALSE, backend |-> FALSE])
    ELSE IF outcomes[1].stage = "render"
    THEN [pages |-> <<Page(1, "")>>, cache |-> cache, invoked |-> FALSE, backend |-> FALSE]
    ELSE ImagePage(cache, OcrCallback(drv, e, cache, d.image[1], outcomes[1]))

(***************************************************************************)
(* The Fill step (cli_gemini.py 127-135, cli_mistral.py 64-72, the same    *)
(* code in both drivers)                                                   *)
(***************************************************************************)
\* continue with step only if the write before it did not raise
Then(first, path, value) ==
    IF ~first.ok THEN first ELSE SetPath(first.root, path, value, Null, Str(""))

\* the two metadata paths; [ok, root]
FillMeta(template, d) ==
    Then(SetPath(template, "meta.file_type", Str(d.suffix), Null, Str("")),
         "meta.file_name", Str(d.name))

\* lines 132-134: what is written for a payload
FillArgs(payload) ==
    [value |-> IF IsDict(payload) THEN DictGetOr(payload, "value", Str("not found"))
               ELSE Str("not found"),
     page |-> IF IsDict(payload) THEN DictGet(payload, "page") ELSE Null,
     excerpt |-> IF IsDict(payload) THEN DictGet(payload, "excerpt") ELSE Str("")]

\* line 135
WriteArgs(template, path, a) == SetPath(template, path, a.value, a.page, a.excerpt)

FillPayload(template, path, payload) == WriteArgs(template, path, FillArgs(payload))

\* the loop body for one FieldSpec; ok = FALSE is the AttributeError of
\* llm_result.get on a result that is not a mapping, or of set_path
FillField(template, result, path) ==
    IF ~IsDict(result) THEN [ok |-> FALSE, root |-> template]
    ELSE FillPayload(template, path, DictGetOr(result, path, EmptyDict))

RECURSIVE FillFields(_, _, _)
FillFields(filled, result, specs) ==
    IF ~filled.ok \/ specs = <<>> THEN filled
    ELSE FillFields(FillField(filled.root, result, Head(specs).path), result, Tail(specs))

FillAll(template, d, result, specs) == FillFields(FillMeta(template, d), result, specs)

(***************************************************************************)
(* The drivers: cli_gemini.main and cli_mistral.main                       *)
(***************************************************************************)
MaxDocPages == 2

LongText ==
    "Reglement de copropriete : le syndic gere l'immeuble, adresse du bien 12 rue de la Paix 75002 Paris."

\* a page of a PDF: its native text and the bytes of its rendering
ScanPage == [native |-> "", image |-> "scan"]
TextPage == [native |-> LongText, image |-> "text"]

\* the PDFs of at most n pages: scanned pages, then pages with a text layer
PageSeqs(n) ==
    UNION {{[i \in 1..len |-> IF i <= scans THEN ScanPage ELSE TextPage] : scans \in 0..len} :
              len \in 0..n}

Docs ==
    {[pdf |-> TRUE, suffix |-> "pdf", name |-> "acte.pdf",
      native |-> [i \in 1..Len(ps) |-> ps[i].native],
      image |-> [i \in 1..Len(ps) |-> ps[i].image]] : ps \in PageSeqs(MaxDocPages)}
    \cup {[pdf |-> FALSE, suffix |-> "png", name |-> "scan.png",
           native |-> <<"">>, image |-> <<"scan">>]}

OcrOutcomes == {[stage |-> "render"], [stage |-> "ocr"],
                [stage |-> "ok", text |-> ""], [stage |-> "ok", text |-> "Surface 40 m2"]}

\* the template assets, by document type (DOC_TEMPLATES)
CarnetTemplate ==
    Dict([meta |-> Dict([file_type |-> Placeholder("string")]),
          bien |-> Dict([adresse |-> Placeholder("string"), surface |-> Placeholder("number")]),
          syndic |-> Placeholder("contact")])

DtaTemplate ==
    Dict([syndic |-> Dict([expected_type |-> Str("contact"), value |-> Str("ancien"),
                           source |-> Dict([page |-> Num(9), excerpt |-> Str("vieux")])])])

TemplateOf(doc_type) == IF doc_type = "dta" THEN DtaTemplate ELSE CarnetTemplate

\* what the text model answers: a transport failure, or a raw text
TextAdresseX ==
    "Sure! {\"bien.adresse\": {\"value\": \"X\", \"page\": 1, \"excerpt\": \"au X\"}} thanks"
TextSyndicOnly ==
    "{\"bien.adresse\": {\"value\": \"not found\", \"page\": null, \"excerpt\": \"\"}, \"syndic\": {\"value\": {\"email\": \"not found\", \"telephone\": \"555\"}, \"page\": 2, \"excerpt\": \"tel 555\"}}"
TextAdresseY ==
    "{\"bien.adresse\": {\"value\": \"Y\", \"page\": 2}, \"syndic\": \"raw\", \"bien.surface\": {\"value\": null, \"page\": null, \"excerpt\": \"\"}}"
TextArray == "[]"

LlmTexts == {TextAdresseX, TextSyndicOnly, TextAdresseY, TextArray}

LlmOutcomes == {[raised |-> TRUE, text |-> ""]} \cup {[raised |-> FALSE, text |-> t] : t \in LlmTexts}

\* parse_json_content of each answer, computed once
ParsedAnswer == [t \in LlmTexts |-> ParseJsonContent(t)]

\* call_gemini / call_mistral: [raised, val]; the transport failure leaves the
\* call as an exception, an answer is returned parsed
Pending == [raised |-> FALSE, val |-> NoRet]
CallLlm(outcome) ==
    IF outcome.raised THEN [raised |-> TRUE, val |-> NoRet]
    ELSE [raised |-> FALSE, val |-> ParsedAnswer[outcome.text]]

Envs(drv) ==
    [api_key : BOOLEAN, template_exists : BOOLEAN, doc_type : {"carnet", "dta"},
     second_pass : IF drv = "gemini" THEN BOOLEAN ELSE {FALSE},
     parallel_api : IF drv = "gemini" THEN {1, 2} ELSE {1},
     chunk_pages : {1}, cache_dir : {TRUE}, max_pages : {DefaultMaxPages}, ocr_all : {FALSE}]

NoPass2 == [called |-> FALSE, missing |-> <<>>, relevant |-> <<>>]
NoMerge == [n |-> 0, base |-> EmptyDict, update |-> NoRet]

Init ==
    /\ driver \in {"gemini", "mistral"}
    /\ env \in Envs(driver)
    /\ doc \in Docs
    /\ pc = "start"
    /\ template_obj = EmptyDict
    /\ field_specs = <<>>
    /\ pages = <<>>
    /\ futures = <<>>
    /\ chunk_out = <<>>
    /\ llm_result = EmptyDict
    /\ ocr_cache = <<>>
    /\ fill_idx = 0
    /\ hist = [loaded |-> FALSE, ocr_invoked |-> FALSE, ocr_backend |-> FALSE, llm_calls |-> 0,
               reported |-> "none", written |-> FALSE, merge |-> NoMerge, order |-> <<>>,
               pass2 |-> NoPass2]
    /\ arg = NoRet
    /\ ret = NoRet

Report(what) == hist' = [hist EXCEPT !.reported = what]

\* cli_gemini.py 31-76: credential, model, template
GeminiSetup ==
    /\ driver = "gemini" /\ pc = "start"
    /\ \/ /\ ~env.api_key
          /\ pc' = "fatal" /\ Report("config:api_key")
          /\ UNCHANGED <<template_obj, field_specs>>
       \/ /\ env.api_key
          /\ pc' = "fatal" /\ Report("no_model")         \* select_model found none
          /\ UNCHANGED <<template_obj, field_specs>>
       \/ /\ env.api_key /\ ~env.template_exists
          /\ pc' = "fatal" /\ Report("config:template")
          /\ UNCHANGED <<template_obj, field_specs>>
       \/ /\ env.api_key /\ env.template_exists
          /\ template_obj' = TemplateOf(env.doc_type)
          /\ field_specs' = CollectFields(TemplateOf(env.doc_type), "")
          /\ pc' = "load"
          /\ UNCHANGED hist
    /\ UNCHANGED <<driver, env, doc, pages, futures, chunk_out, llm_result, ocr_cache,
                   fill_idx, arg, ret>>

\* cli_mistral.py 21-45: template only
MistralSetup ==
    /\ driver = "mistral" /\ pc = "start"
    /\ \/ /\ ~env.template_exists
          /\ pc' = "fatal" /\ Report("config:template")
          /\ UNCHANGED <<template_obj, field_specs>>
       \/ /\ env.template_exists
          /\ template_obj' = TemplateOf(env.doc_type)
          /\ field_specs' = CollectFields(TemplateOf(env.doc_type), "")
          /\ pc' = "load"
          /\ UNCHANGED hist
    /\ UNCHANGED <<driver, env, doc, pages, futures, chunk_out, llm_result, ocr_cache,
                   fill_idx, arg, ret>>

\* chunks = [pages[i:i + chunk_pages] for i in range(0, len(pages), chunk_pages)]
NChunks(n, chunk_pages) == (n + chunk_pages - 1) \div chunk_pages
Chunk(pgs, chunk_pages, i) ==
    SubSeq(pgs, (i - 1) * chunk_pages + 1,
           IF i * chunk_pages < Len(pgs) THEN i * chunk_pages ELSE Len(pgs))
Max1(n) == IF n < 1 THEN 1 ELSE n

\* load_pages (cli_gemini.py 79-87, cli_mistral.py 48-54), then the chunking of
\* cli_gemini.py 92-93
LoadPages ==
    /\ pc = "load"
    /\ \E outcomes \in [1..Len(doc.native) -> OcrOutcomes] :
       \E r \in {LoadPagesWithOcr(doc, env.max_pages, env.ocr_all, driver, env,
                                  ocr_cache, outcomes)} :
       \E n \in {IF driver = "gemini" THEN NChunks(Len(r.pages), Max1(env.chunk_pages)) ELSE 1} :
          /\ pages' = r.pages
          /\ ocr_cache' = r.cache
          /\ hist' = [hist EXCEPT !.loaded = TRUE, !.ocr_invoked = r.invoked,
                                  !.ocr_backend = r.backend]
          /\ futures' = [i \in 1..n |-> "queued"]
          /\ chunk_out' = [i \in 1..n |-> Pending]
    /\ pc' = IF driver = "gemini" THEN "pass1" ELSE "call"
    /\ UNCHANGED <<driver, env, doc, template_obj, field_specs, llm_result, fill_idx, arg, ret>>

UseParallel == env.parallel_api > 1 /\ Len(futures) > 1
Queued == {i \in DOMAIN futures : futures[i] = "queued"}
Running == {i \in DOMAIN futures : futures[i] = "running"}
FirstQueued == CHOOSE i \in Queued : \A j \in Queued : i <= j

\* hist.merge is the last merge_extractions call, hist.order the chunks in the
\* order in which pass 1 merged them
Merged(update) ==
    /\ llm_result' = MergeExtractions(llm_result, update)
    /\ hist' = [hist EXCEPT !.llm_calls = @ + 1,
                            !.merge = [n |-> @.n + 1, base |-> llm_result, update |-> update],
                            !.order = Append(@, FirstQueued)]

\* cli_gemini.py 106-108: the sequential loop, one chunk
SeqChunk ==
    /\ driver = "gemini" /\ pc = "pass1" /\ ~UseParallel /\ Queued # {}
    /\ \E o \in LlmOutcomes : \E out \in {CallLlm(o)} :
          /\ chunk_out' = [chunk_out EXCEPT ![FirstQueued] = out]
          /\ \/ /\ out.raised
                /\ pc' = "crashed"
                /\ hist' = [hist EXCEPT !.llm_calls = @ + 1, !.reported = "llm_error"]
                /\ UNCHANGED <<llm_result, futures>>
             \/ /\ ~out.raised
                /\ Merged(out.val)
                /\ futures' = [futures EXCEPT ![FirstQueued] = "merged"]
                /\ UNCHANGED pc
    /\ UNCHANGED <<driver, env, doc, template_obj, field_specs, pages, ocr_cache, fill_idx,
                   arg, ret>>

\* ThreadPoolExecutor: a free worker takes the next submitted chunk
StartChunk ==
    /\ driver = "gemini" /\ pc \in {"pass1", "aborting"} /\ UseParallel
    /\ Queued # {} /\ Cardinality(Running) < env.parallel_api
    /\ futures' = [futures EXCEPT ![FirstQueued] = "running"]
    /\ UNCHANGED <<driver, pc, env, doc, template_obj, field_specs, pages, chunk_out,
                   llm_result, ocr_cache, fill_idx, hist, arg, ret>>

\* run_chunk (cli_gemini.py 95-99) returns or raises in its worker
FinishChunk(i) ==
    /\ driver = "gemini" /\ pc \in {"pass1", "aborting"} /\ UseParallel
    /\ futures[i] = "running"
    /\ \E o \in LlmOutcomes : chunk_out' = [chunk_out EXCEPT ![i] = CallLlm(o)]
    /\ futures' = [futures EXCEPT ![i] = "done"]
    /\ hist' = [hist EXCEPT !.llm_calls = @ + 1]
    /\ UNCHANGED <<driver, pc, env, doc, template_obj, field_specs, pages, llm_result,
                   ocr_cache, fill_idx, arg, ret>>

\* cli_gemini.py 103-104: as_completed hands over a finished future;
\* future.result() returns the chunk's result or re-raises its exception
MergeFuture(i) ==
    /\ driver = "gemini" /\ pc = "pass1" /\ UseParallel
    /\ futures[i] = "done"
    /\ \/ /\ chunk_out[i].raised
          /\ pc' = "aborting"
          /\ hist' = [hist EXCEPT !.reported = "llm_error"]
          /\ UNCHANGED <<llm_result, futures>>
       \/ /\ ~chunk_out[i].raised
          /\ llm_result' = MergeExtractions(llm_result, chunk_out[i].val)
          /\ hist' = [hist EXCEPT !.merge = [n |-> @.n + 1, base |-> llm_result,
                                             update |-> chunk_out[i].val],
                                  !.order = Append(@, i)]
          /\ futures' = [futures EXCEPT ![i] = "merged"]
          /\ UNCHANGED pc
    /\ UNCHANGED <<driver, env, doc, template_obj, field_specs, pages, chunk_out, ocr_cache,
                   fill_idx, arg, ret>>

\* leaving the with-block: the executor waits for its workers, then the
\* exception leaves main
AbortPass1 ==
    /\ driver = "gemini" /\ pc = "aborting"
    /\ Queued = {} /\ Running = {}
    /\ pc' = "crashed"
    /\ UNCHANGED <<driver, env, doc, template_obj, field_specs, pages, futures, chunk_out,
                   llm_result, ocr_cache, fill_idx, hist, arg, ret>>

\* cli_gemini.py 114-118: the FieldSpecs not found in the running result
ResultValue(result, path) ==
    IF IsDict(DictGet(result, path)) THEN DictGet(DictGetOr(result, path, EmptyDict), "value")
    ELSE Null

\* faulty variant: every field is targeted again
MissingEveryField(result, specs) == specs

Missing(result, specs) ==
    LET NotFound(fs) == ~IsFound(ResultValue(result, fs.path)) IN SelectSeq(specs, NotFound)

Pass1Over == pc = "pass1" /\ \A i \in DOMAIN futures : futures[i] = "merged"

\* cli_gemini.py 112-125: the optional second pass
Pass2 ==
    /\ driver = "gemini" /\ Pass1Over
    /\ \E missing \in {Missing(llm_result, field_specs)} :
       \E relevant \in {FindRelevantPages(pages, missing)} :
           \/ /\ ~env.second_pass \/ missing = <<>> \/ relevant = <<>>
              /\ pc' = "fill"
              /\ UNCHANGED <<llm_result, hist>>
           \/ /\ env.second_pass /\ missing # <<>> /\ relevant # <<>>
              /\ \E o \in LlmOutcomes : \E out \in {CallLlm(o)} :
                    \/ /\ out.raised
                       /\ pc' = "crashed"
                       /\ hist' = [hist EXCEPT !.llm_calls = @ + 1, !.reported = "llm_error",
                                               !.pass2 = [called |-> TRUE, missing |-> missing,
                                                          relevant |-> relevant]]
                       /\ UNCHANGED llm_result
                    \/ /\ ~out.raised
                       /\ pc' = "fill"
                       /\ llm_result' = MergeExtractions(llm_result, out.val)
                       /\ hist' = [hist EXCEPT !.llm_calls = @ + 1,
                                               !.merge = [n |-> @.n + 1, base |-> llm_result,
                                                          update |-> out.val],
                                               !.pass2 = [called |-> TRUE, missing |-> missing,
                                                          relevant |-> relevant]]
    /\ UNCHANGED <<driver, env, doc, template_obj, field_specs, pages, futures, chunk_out,
                   ocr_cache, fill_idx, arg, ret>>

\* cli_mistral.py 55-61: one call over the whole document
MistralCall ==
    /\ driver = "mistral" /\ pc = "call"
    /\ \/ /\ ~env.api_key
          /\ pc' = "fatal" /\ Report("config:api_key")
          /\ UNCHANGED <<llm_result, chunk_out>>
       \/ /\ env.api_key
          /\ \E o \in LlmOutcomes : \E out \in {CallLlm(o)} :
                /\ chunk_out' = [chunk_out EXCEPT ![1] = out]
                /\ \/ /\ out.raised
                      /\ pc' = "crashed"
                      /\ hist' = [hist EXCEPT !.llm_calls = @ + 1, !.reported = "llm_error"]
                      /\ UNCHANGED llm_result
                   \/ /\ ~out.raised
                      /\ pc' = "fill"
                      /\ llm_result' = out.val
                      /\ hist' = [hist EXCEPT !.llm_calls = @ + 1]
    /\ UNCHANGED <<driver, env, doc, template_obj, field_specs, pages, futures, ocr_cache,
                   fill_idx, arg, ret>>

\* cli_gemini.py 127-137, cli_mistral.py 63-74: fill the template, write it
Fill ==
    /\ pc = "fill"
    /\ \E r \in {FillAll(template_obj, doc, llm_result, field_specs)} :
       /\ template_obj' = r.root
       /\ \/ /\ r.ok
             /\ pc' = "done"
             /\ fill_idx' = Len(field_specs)
             /\ hist' = [hist EXCEPT !.written = TRUE]
          \/ /\ ~r.ok
             /\ pc' = "crashed"
             /\ hist' = [hist EXCEPT !.reported = "attribute_error"]
             /\ UNCHANGED fill_idx
    /\ UNCHANGED <<driver, env, doc, field_specs, pages, futures, chunk_out, llm_result,
                   ocr_cache, arg, ret>>

Next ==
    \/ GeminiSetup
    \/ MistralSetup
    \/ LoadPages
    \/ SeqChunk
    \/ StartChunk
    \/ \E i \in DOMAIN futures : FinishChunk(i)
    \/ \E i \in DOMAIN futures : MergeFuture(i)
    \/ AbortPass1
    \/ Pass2
    \/ MistralCall
    \/ Fill

Spec == Init /\ [][Next]_vars

(***************************************************************************)
(* Specification SpecFound: is_found applied to one value                  *)
(***************************************************************************)
\* the driver variables, unused by the pure-function specifications
OrchIdle ==
    /\ driver = "none"
    /\ pc = "idle"
    /\ env = <<>>
    /\ doc = <<>>
    /\ template_obj = EmptyDict
    /\ field_specs = <<>>
    /\ pages = <<>>
    /\ futures = <<>>
    /\ chunk_out = <<>>
    /\ llm_result = EmptyDict
    /\ ocr_cache = <<>>
    /\ fill_idx = 0
    /\ hist = <<>>

MaxPad == 1

\* whitespace runs of at most n characters
RECURSIVE PadsUpTo(_)
PadsUpTo(n) ==
    IF n = 0 THEN {""}
    ELSE PadsUpTo(n - 1) \cup {p \o w : p \in PadsUpTo(n - 1), w \in {" ", "\t", "\n"}}

Pads == PadsUpTo(MaxPad)

Cores == {"", "not found", "Not Found", "NOT FOUND", "not  found", "not\tfound",
          "notfound", "not found.", "x", "0", "None", "found"}

FoundStrings == {p \o c \o q : p \in Pads, q \in Pads, c \in Cores}

ContactValues == {Null, Str(""), Str("not found"), Str(" Not Found "), Str("555"),
                  Num(0), Bool(FALSE), List(<<>>)}

ContactDicts ==
    {EmptyDict}
    \cup {Dict([k \in {"email"} |-> a]) : a \in ContactValues}
    \cup {Dict([email |-> a, telephone |-> b]) : a \in ContactValues, b \in ContactValues}

FoundInputs ==
    {Null, Bool(FALSE), Bool(TRUE), Num(0), Num(1985),
     List(<<>>), List(<<Str("x")>>), List(<<Null>>), List(<<Str("not found")>>)}
    \cup {Str(s) : s \in FoundStrings}
    \cup ContactDicts

InitFound ==
    /\ OrchIdle
    /\ arg \in FoundInputs
    /\ ret = NoRet

CallIsFound ==
    /\ driver = "none"
    /\ ret = NoRet
    /\ ret' = Bool(IsFound(arg))
    /\ UNCHANGED <<arg, orchVars>>

NextFound == CallIsFound

SpecFound == InitFound /\ [][NextFound]_vars

\* s, case-insensitively, is word
SameWord(s, word) ==
    /\ Len(s) = Len(word)
    /\ \A k \in 1..Len(word) : LowerChar(Ch(s, k)) = Ch(word, k)

\* s is whitespace around nothing, or whitespace around "not found" in any case
BlankOrNotFound(s) ==
    \E i \in 0..Len(s) : \E j \in i..Len(s) :
        /\ \A k \in 1..i : Ch(s, k) \in Whitespace
        /\ \A k \in (j + 1)..Len(s) : Ch(s, k) \in Whitespace
        /\ \/ i = j
           \/ SameWord(SubSeq(s, i + 1, j), "not found")

\* the reference predicate of the claim
RefFound(v) ==
    CASE v.kind = "null" -> FALSE
      [] v.kind = "str" -> ~BlankOrNotFound(v.s)
      [] v.kind = "list" -> v.items # <<>>
      [] v.kind = "dict" -> \E k \in DOMAIN v.d : ~BlankOrNotFound(PyStr(v.d[k]))
      [] OTHER -> TRUE

\* C10: is_found(value) is the reference predicate: null is not found; a string is
\* not found iff trimmed and lowercased it is empty or "not found"; a list is not
\* found iff it is empty; an object is found iff one of its values, stringified,
\* trimmed and lowercased, is neither; any other type is found. The examples of
\* the specification are among the inputs.
C10_IsFoundIsReference ==
    ret # NoRet =>
        /\ ret = Bool(RefFound(arg))
        /\ arg \in {Null, Str("not found"), Str("  "), List(<<>>)} => ret = Bool(FALSE)
        /\ arg \in {List(<<Str("x")>>),
                    Dict([email |-> Str("not found"), telephone |-> Str("555")])}
              => ret = Bool(TRUE)

C10_Witness ==
    /\ ret = Bool(FALSE)
    /\ arg = Str("\tNot Found ")

(***************************************************************************)
(* Specification SpecParse: parse_json_content applied to one raw text     *)
(***************************************************************************)
RawPrefixes == {"", " ", "Sure! ", "{", "json:\n"}
RawSuffixes == {"", "\n", " thanks", "}", "\n--"}
RawBodies ==
    {"", "{}", "{\"a\":{\"value\":1}}", "{ \"a\" : {\"value\": \"X\", \"page\": 3} }",
     "{\"a\":1}{\"b\":2}", "{\"a\":", "{\"a\":1,}", "{\"a\":1,\"a\":2}",
     "[]", "[1, 2]", "[{\"a\":1}]", "3", "-12", "1.5", "null", "true", "\"x\"", "\"{}\"",
     "NaN", "nul"}

RawTexts == {p \o b \o q : p \in RawPrefixes, b \in RawBodies, q \in RawSuffixes}

InitParse ==
    /\ OrchIdle
    /\ arg \in {Str(t) : t \in RawTexts}
    /\ ret = NoRet

CallParseJsonContent ==
    /\ driver = "none"
    /\ ret = NoRet
    /\ ret' = ParseJsonContent(arg.s)
    /\ UNCHANGED <<arg, orchVars>>

NextParse == CallParseJsonContent

SpecParse == InitParse /\ [][NextParse]_vars

\* the three-step rule of the claim, with the substring taken by position
FirstBrace(t) == CHOOSE i \in 1..Len(t) : Ch(t, i) = "{" /\ \A k \in 1..(i - 1) : Ch(t, k) # "{"
LastBrace(t) == CHOOSE i \in 1..Len(t) : Ch(t, i) = "}" /\ \A k \in (i + 1)..Len(t) : Ch(t, k) # "}"

ThreeStepParse(t) ==
    IF JsonLoads(t).ok THEN JsonLoads(t).v
    ELSE IF InStr("{", t) /\ InStr("}", t) /\ FirstBrace(t) < LastBrace(t)
            /\ JsonLoads(SubSeq(t, FirstBrace(t), LastBrace(t))).ok
    THEN JsonLoads(SubSeq(t, FirstBrace(t), LastBrace(t))).v
    ELSE EmptyDict

\* C5: parse_json_content returns the strictly parsed JSON when that succeeds,
\* otherwise the parse of the substring from the first "{" to the last "}",
\* otherwise the empty mapping, and the returned value is a mapping in every
\* case, also for raw text that is valid JSON but not an object.
C5_ParseAlwaysMapping ==
    ret # NoRet =>
        /\ ret = ThreeStepParse(arg.s)
        /\ IsDict(ret)

\* the three-step rule alone, which the code follows
C5_ParseThreeSteps == ret # NoRet => ret = ThreeStepParse(arg.s)

(***************************************************************************)
(* Specification SpecSetPath: one set_path call on a template              *)
(***************************************************************************)
OldRecord ==
    Dict([value |-> Str("old"), source |-> Dict([page |-> Num(1), excerpt |-> Str("vieux")])])

\* a filled leaf carrying more than value and source.page / source.excerpt
RichRecord ==
    Dict([expected_type |-> Str("number"), unit |-> Str("m2"), value |-> Num(40),
          source |-> Dict([page |-> Num(1), excerpt |-> Str("40 m2"), bbox |-> List(<<Num(0)>>)])])

LeafShapes ==
    {Placeholder("string"), Placeholder("list"), OldRecord, RichRecord, EmptyDict,
     Dict([value |-> Str("old")]),
     Dict([value |-> Str("old"), source |-> Str("p.3")]),
     Dict([expected_type |-> Str("string"), source |-> Null]),
     Dict([city |-> Placeholder("string")]),
     Str("raw"), Null, Num(7), List(<<>>)}

SetPathRoots ==
    {Dict([a |-> Dict([b |-> leaf, c |-> OldRecord]), z |-> Placeholder("boolean")]) :
        leaf \in LeafShapes}
    \cup {Dict([a |-> Dict([c |-> OldRecord]), z |-> Placeholder("boolean")]),
          EmptyDict,
          Dict([a |-> Str("raw")]),
          Dict([a |-> Null, z |-> OldRecord])}

SetPathPaths == {"a.b", "a.c", "z", "a", "a.b.city", "x.y.z"}
SetPathValues == {Str("Paris"), Str("not found"), Null, List(<<Str("x")>>),
                  Dict([email |-> Str("a@b.fr"), telephone |-> Str("not found")])}
SetPathPages == {Null, Num(3)}
SetPathExcerpts == {Str(""), Str("situe a Paris")}

InitSetPath ==
    /\ OrchIdle
    /\ arg \in [root : SetPathRoots, path : SetPathPaths, value : SetPathValues,
                page : SetPathPages, excerpt : SetPathExcerpts]
    /\ ret = NoRet

CallSetPath ==
    /\ driver = "none"
    /\ ret = NoRet
    /\ ret' = SetPath(arg.root, arg.path, arg.value, arg.page, arg.excerpt)
    /\ UNCHANGED <<arg, orchVars>>

NextSetPath == CallSetPath

SpecSetPath == InitSetPath /\ [][NextSetPath]_vars

IsPrefix(a, b) == Len(a) <= Len(b) /\ SubSeq(b, 1, Len(a)) = a

\* the key paths of every node of a tree
RECURSIVE AllPaths(_)
AllPaths(node) ==
    {<<>>} \cup
    (IF IsDict(node)
     THEN UNION {{<<k>> \o q : q \in AllPaths(node.d[k])} : k \in DOMAIN node.d}
     ELSE {})

SetPathDone == ret # NoRet /\ ret.ok
ArgParts == Split(arg.path)
LeafBefore == NodeAt(arg.root, ArgParts)
LeafAfter == NodeAt(ret.root, ArgParts)
OnlyExpectedType(leaf) == leaf.ok /\ IsDict(leaf.v) /\ DOMAIN leaf.v.d = {"expected_type"}

\* C7 as stated: a placeholder leaf carrying only expected_type is left equal to
\* exactly {"value": value, "source": {"page": page, "excerpt": excerpt}}.
C7_PlaceholderBecomesExactRecord ==
    (SetPathDone /\ OnlyExpectedType(LeafBefore)) =>
        LeafAfter.v = FreshRecord(arg.value, arg.page, arg.excerpt)

\* C7 as amended: the placeholder leaf holds the value and the source written and
\* keeps its expected_type: {"expected_type": t, "value": value,
\* "source": {"page": page, "excerpt": excerpt}}.
C7_PlaceholderKeepsExpectedType ==
    (SetPathDone /\ OnlyExpectedType(LeafBefore)) =>
        /\ LeafAfter.ok
        /\ LeafAfter.v = Dict([expected_type |-> LeafBefore.v.d.expected_type,
                               value |-> arg.value,
                               source |-> SourceRecord(arg.page, arg.excerpt)])

C7_Witness ==
    /\ SetPathDone
    /\ arg.path = "a.b" /\ arg.value = Str("Paris") /\ arg.page = Num(3)
    /\ arg.excerpt = Str("situe a Paris")
    /\ LeafBefore = [ok |-> TRUE, v |-> Placeholder("string")]
    /\ LeafAfter.v.d.value = Str("Paris")

\* C9: when the leaf is already a mapping only its value, source.page and
\* source.excerpt are overwritten and every other key of the leaf and of its source
\* record is unchanged; a fresh {value, source} record is constructed only when the
\* leaf is missing or not a mapping; every other node of the template is unchanged
\* (a call that raises leaves the template as it was).
C9_SetPathFrame ==
    /\ (ret # NoRet /\ ~ret.ok) => ret.root = arg.root
    /\ SetPathDone =>
        /\ LeafAfter.ok /\ IsDict(LeafAfter.v)
        /\ \A q \in AllPaths(arg.root) :
              (~IsPrefix(q, ArgParts) /\ ~IsPrefix(ArgParts, q)) =>
                  NodeAt(ret.root, q) = NodeAt(arg.root, q)
        /\ \A n \in 0..(Len(ArgParts) - 1) :
              LET q == SubSeq(ArgParts, 1, n) IN
              NodeAt(arg.root, q).ok =>
                  DOMAIN NodeAt(ret.root, q).v.d
                      = (DOMAIN NodeAt(arg.root, q).v.d) \cup {ArgParts[n + 1]}
        /\ IF LeafBefore.ok /\ IsDict(LeafBefore.v)
           THEN LET old == LeafBefore.v
                    new == LeafAfter.v
                    oldSrc == DictGet(old, "source")
                    newSrc == DictGet(new, "source")
                IN  /\ DOMAIN new.d = (DOMAIN old.d) \cup {"value", "source"}
                    /\ \A k \in (DOMAIN old.d) \ {"value", "source"} : new.d[k] = old.d[k]
                    /\ new.d.value = arg.value
                    /\ IF IsDict(oldSrc)
                       THEN /\ IsDict(newSrc)
                            /\ DOMAIN newSrc.d = (DOMAIN oldSrc.d) \cup {"page", "excerpt"}
                            /\ \A k \in (DOMAIN oldSrc.d) \ {"page", "excerpt"} :
                                  newSrc.d[k] = oldSrc.d[k]
                            /\ newSrc.d.page = arg.page
                            /\ newSrc.d.excerpt = arg.excerpt
                       ELSE newSrc = SourceRecord(arg.page, arg.excerpt)
           ELSE LeafAfter.v = FreshRecord(arg.value, arg.page, arg.excerpt)

C9_Witness ==
    /\ SetPathDone
    /\ arg.path = "a.b"
    /\ LeafBefore = [ok |-> TRUE, v |-> RichRecord]
    /\ LeafAfter.v.d.unit = Str("m2")
    /\ LeafAfter.v.d.source.d.bbox = List(<<Num(0)>>)
    /\ LeafAfter.v.d.value = arg.value /\ arg.value # Num(40)

(***************************************************************************)
(* Specification SpecFill: the Fill step on a template and an extraction   *)
(* result, the fields written in any order. hist is the sequence of the    *)
(* writes made so far, each [path, args].                                  *)
(***************************************************************************)
DeepTemplate ==
    Dict([meta |-> Dict([file_name |-> OldRecord]),
          bien |-> Dict([lots |-> Dict([cave |-> Placeholder("boolean")]),
                         surface |-> RichRecord,
                         adresse |-> Placeholder("string")]),
          version |-> Num(2)])

\* a template whose meta entry is not a mapping
FlatMetaTemplate == Dict([meta |-> Str("v1"), syndic |-> Placeholder("contact")])

FillTemplates == {CarnetTemplate, DtaTemplate, DeepTemplate, FlatMetaTemplate}

DeepResult ==
    Dict([k \in {"bien.lots.cave", "bien.surface"} |->
            IF k = "bien.surface"
            THEN Dict([value |-> Num(52), page |-> Num(4), excerpt |-> Str("52 m2")])
            ELSE Dict([value |-> Bool(TRUE), page |-> Num(2)])])

FillResults ==
    {ParsedAnswer[t] : t \in LlmTexts}
    \cup {MergeExtractions(MergeExtractions(EmptyDict, ParsedAnswer[t]), ParsedAnswer[u]) :
             t \in LlmTexts, u \in LlmTexts}
    \cup {DeepResult}

InitFill ==
    /\ driver = "fill"
    /\ pc = "meta"
    /\ env = <<>>
    /\ doc \in {d \in Docs : Len(d.native) = 1}
    /\ template_obj \in FillTemplates
    /\ field_specs = CollectFields(template_obj, "")
    /\ llm_result \in FillResults
    /\ pages = <<>>
    /\ futures = <<>>
    /\ chunk_out = <<>>
    /\ ocr_cache = <<>>
    /\ fill_idx = 0
    /\ hist = <<>>
    /\ arg = NoRet
    /\ ret = NoRet

\* cli_gemini.py 127-128
FillMetaStep ==
    /\ driver = "fill" /\ pc = "meta"
    /\ \E r \in {FillMeta(template_obj, doc)} :
          /\ template_obj' = r.root
          /\ pc' = IF r.ok THEN "fields" ELSE "crashed"
    /\ UNCHANGED <<driver, env, doc, field_specs, pages, futures, chunk_out, llm_result,
                   ocr_cache, fill_idx, hist, arg, ret>>

FilledPaths == {hist[n].path : n \in 1..Len(hist)}

\* cli_gemini.py 131-135 for the FieldSpec fs, any one not written yet
FillNext(fs) ==
    /\ driver = "fill" /\ pc = "fields"
    /\ fs.path \notin FilledPaths
    /\ \E r \in {FillField(template_obj, llm_result, fs.path)} :
          \/ /\ r.ok
             /\ template_obj' = r.root
             /\ fill_idx' = fill_idx + 1
             /\ hist' = Append(hist, [path |-> fs.path,
                                      args |-> FillArgs(DictGetOr(llm_result, fs.path, EmptyDict))])
             /\ UNCHANGED pc
          \/ /\ ~r.ok
             /\ pc' = "crashed"
             /\ UNCHANGED <<template_obj, fill_idx, hist>>
    /\ UNCHANGED <<driver, env, doc, field_specs, pages, futures, chunk_out, llm_result,
                   ocr_cache, arg, ret>>

\* cli_gemini.py 137
FillWrite ==
    /\ driver = "fill" /\ pc = "fields"
    /\ fill_idx = Len(field_specs)
    /\ pc' = "written"
    /\ UNCHANGED <<driver, env, doc, template_obj, field_specs, pages, futures, chunk_out,
                   llm_result, ocr_cache, fill_idx, hist, arg, ret>>

NextFill ==
    \/ FillMetaStep
    \/ \E i \in DOMAIN field_specs : FillNext(field_specs[i])
    \/ FillWrite

SpecFill == InitFill /\ [][NextFill]_vars

\* the record read back at path holds what the write w put there
ReadsBack(rec, w) ==
    /\ rec.ok /\ IsDict(rec.v)
    /\ {"value", "source"} \subseteq DOMAIN rec.v.d
    /\ rec.v.d.value = w.value
    /\ IsDict(rec.v.d.source)
    /\ {"page", "excerpt"} \subseteq DOMAIN rec.v.d.source.d
    /\ rec.v.d.source.d.page = w.page
    /\ rec.v.d.source.d.excerpt = w.excerpt

\* C8: round trip of Fill: at every moment of the Fill step, in whatever order the
\* fields are written, reading back the dot-path of each field written so far
\* yields exactly the value, page and excerpt written for it, so no later set_path
\* of another field alters an earlier field's record.
C8_FillRoundTrip ==
    \A n \in 1..Len(hist) : ReadsBack(GetPath(template_obj, hist[n].path), hist[n].args)

C8_Witness ==
    /\ pc = "written"
    /\ Len(hist) = 3
    /\ hist[1].path = "bien.surface" /\ hist[2].path = "syndic" /\ hist[3].path = "bien.adresse"
    /\ hist[3].args.value = Str("X")
    /\ hist[2].args.page = Num(2)
    /\ GetPath(template_obj, "bien.surface").v.d.value = Str("not found")

(***************************************************************************)
(* Properties of the drivers (specification Spec)                          *)
(***************************************************************************)
\* update reports key with a dict-shaped record whose value is found
FoundRecord(update, key) ==
    /\ IsDict(update)
    /\ key \in DOMAIN update.d
    /\ IsDict(update.d[key])
    /\ RefFound(DictGet(update.d[key], "value"))

KeysOf(v) == IF IsDict(v) THEN DOMAIN v.d ELSE {}

\* what a merge_extractions call must have left under key
MergeLeft(base, update, result, key) ==
    IF FoundRecord(update, key)
    THEN key \in DOMAIN result.d /\ result.d[key] = update.d[key]
    ELSE /\ key \in DOMAIN result.d <=> key \in DOMAIN base.d
         /\ key \in DOMAIN base.d => result.d[key] = base.d[key]

\* C1: after every merge_extractions call on the running result (chunk results in
\* pass 1, then the pass-2 result) a key whose record in the update is found holds
\* that record, and every other key holds what it held before the call: an update
\* whose record is not found, or not dict-shaped, removes and changes nothing. The
\* running result holds found records only. In particular chunk A reporting
\* bien.adresse = X and chunk B reporting bien.adresse = "not found" leave
\* bien.adresse = X in either merge order.
C1_MergeKeepsFound ==
    driver = "gemini" =>
        /\ IsDict(llm_result)
        /\ \A k \in DOMAIN llm_result.d : FoundRecord(llm_result, k)
        /\ hist.merge.n > 0 =>
              \A k \in KeysOf(hist.merge.base) \cup KeysOf(hist.merge.update) \cup KeysOf(llm_result) :
                  MergeLeft(hist.merge.base, hist.merge.update, llm_result, k)
        /\ (/\ Pass1Over
            /\ Len(chunk_out) = 2
            /\ {chunk_out[1].val, chunk_out[2].val}
                  = {ParsedAnswer[TextAdresseX], ParsedAnswer[TextSyndicOnly]})
              => llm_result.d["bien.adresse"] = ParsedAnswer[TextAdresseX].d["bien.adresse"]

C1_Witness ==
    /\ driver = "gemini" /\ Pass1Over
    /\ hist.order = <<2, 1>>
    /\ chunk_out[2].val = ParsedAnswer[TextAdresseX]
    /\ chunk_out[1].val = ParsedAnswer[TextSyndicOnly]
    /\ hist.merge.update = ParsedAnswer[TextSyndicOnly]
    /\ hist.merge.base.d["bien.adresse"].d.value = Str("X")
    /\ llm_result.d["bien.adresse"].d.value = Str("X")

\* the positions of order at which the merged chunk reports key found
Finders(order, key) == {n \in 1..Len(order) : FoundRecord(chunk_out[order[n]].val, key)}
LastFinder(order, key) ==
    CHOOSE n \in Finders(order, key) : \A m \in Finders(order, key) : m <= n

ReportedKeys == UNION {KeysOf(chunk_out[i].val) : i \in DOMAIN chunk_out}

\* for every key some chunk found, the record of the last chunk of order that found it
LastFoundWins(order) ==
    Dict([k \in {key \in ReportedKeys : Finders(order, key) # {}} |->
            chunk_out[order[LastFinder(order, k)]].val.d[k]])

IndexOrder == [i \in DOMAIN chunk_out |-> i]

\* no key is reported found by two chunks with different records
NoConflict ==
    \A k \in ReportedKeys : \A i \in DOMAIN chunk_out : \A j \in DOMAIN chunk_out :
        (FoundRecord(chunk_out[i].val, k) /\ FoundRecord(chunk_out[j].val, k))
            => chunk_out[i].val.d[k] = chunk_out[j].val.d[k]

C3_LlmFailureDoesNotAbort ==
    driver = "gemini" => ~(hist.reported = "llm_error" /\ pc = "crashed")

\* the answers the LLM passes returned
Answers ==
    {chunk_out[i].val : i \in {j \in DOMAIN chunk_out : ~chunk_out[j].raised}}
    \cup (IF hist.pass2.called THEN {hist.merge.update} ELSE {})

\* C4: the Fill step ends, whatever the LLM passes returned, with a value record at
\* the dot-path of every FieldSpec, and every field that no chunk and no pass
\* reported as found has the literal value "not found".
C4_FilledTemplateIsTotal ==
    /\ hist.reported # "attribute_error"
    /\ pc = "done" =>
          \A i \in DOMAIN field_specs :
              /\ GetPath(template_obj, field_specs[i].path).ok
              /\ IsDict(GetPath(template_obj, field_specs[i].path).v)
              /\ "value" \in DOMAIN GetPath(template_obj, field_specs[i].path).v.d
              /\ (\A a \in Answers : ~FoundRecord(a, field_specs[i].path))
                    => GetPath(template_obj, field_specs[i].path).v.d.value = Str("not found")

\* C6: a configuration error (missing API credential, missing template file) is
\* reported before any processing: no page loading, OCR call or LLM call has
\* happened, and no output file is written.
C6_ConfigErrorBeforeProcessing ==
    (pc = "fatal" /\ hist.reported \in {"config:api_key", "config:template"}) =>
        /\ ~hist.loaded
        /\ ~hist.ocr_invoked
        /\ hist.llm_calls = 0
        /\ ~hist.written

(***************************************************************************)
(* Specification SpecMerge: one merge_extractions call, base a mapping     *)
(* (the running result), update whatever parse_json_content returned       *)
(***************************************************************************)
MergeRecords ==
    {Dict([value |-> Str("X"), page |-> Num(1), excerpt |-> Str("au X")]),
     Dict([value |-> Str("Y"), page |-> Num(2)]),
     Dict([value |-> Str(" Not Found "), page |-> Null, excerpt |-> Str("")]),
     Dict([value |-> Null]),
     Dict([value |-> List(<<>>)]),
     Dict([value |-> Dict([email |-> Str("not found"), telephone |-> Str("")])]),
     Dict([page |-> Num(3), excerpt |-> Str("p. 3")]),
     Str("raw"), Null}

MergeKeySets == SUBSET {"f1", "f2"}

MergeMappings == UNION {{Dict(f) : f \in [ks -> MergeRecords]} : ks \in MergeKeySets}

MergeUpdates == MergeMappings \cup {List(<<>>), Null, Str("f1"), Num(3)}

InitMerge ==
    /\ OrchIdle
    /\ arg \in [base : MergeMappings, update : MergeUpdates]
    /\ ret = NoRet

CallMergeExtractions ==
    /\ driver = "none"
    /\ ret = NoRet
    /\ ret' = MergeExtractions(arg.base, arg.update)
    /\ UNCHANGED <<arg, orchVars>>

NextMerge == CallMergeExtractions

SpecMerge == InitMerge /\ [][NextMerge]_vars

\* the value an extraction result holds at key: that of its dict-shaped record
ValueIn(result, key) ==
    IF IsDict(result) /\ key \in DOMAIN result.d /\ IsDict(result.d[key])
    THEN DictGet(result.d[key], "value")
    ELSE Null

\* C11: merge never invents a finding: for every key, if the value at the key in
\* merge(a, b) is found, then the value at the key in a is found or the value at
\* the key in b is found.
C11_MergeNeverInvents ==
    ret # NoRet =>
        /\ IsDict(ret)
        /\ \A k \in DOMAIN ret.d :
              RefFound(ValueIn(ret, k)) =>
                  RefFound(ValueIn(arg.base, k)) \/ RefFound(ValueIn(arg.update, k))

C11_Witness ==
    /\ ret # NoRet
    /\ ~RefFound(ValueIn(arg.base, "f1")) /\ "f1" \in DOMAIN arg.base.d
    /\ RefFound(ValueIn(arg.update, "f1"))
    /\ DictGet(arg.update, "f2") = Str("raw")
    /\ RefFound(ValueIn(ret, "f1"))
    /\ "f2" \notin DOMAIN ret.d

(***************************************************************************)
(* Specification SpecOcr: a sequence of gemini_ocr_image requests on one   *)
(* cache directory. arg is the directory as the first request finds it     *)
(* (files of earlier runs), hist the requests made so far, each            *)
(* [image, invoked, raised, text].                                         *)
(***************************************************************************)
MaxRequests == 3

OcrImages == {"scan", "plan"}

\* what the vision backend does when asked (the image bytes are at hand)
BackendOutcomes ==
    {o \in OcrOutcomes : o.stage # "render"} \cup {[stage |-> "ok", text |-> "Lot 7"]}

InitialCaches == {<<>>, [i \in {"plan"} |-> "vieux plan"]}

InitOcr ==
    /\ driver = "ocr"
    /\ pc = "requests"
    /\ env \in [cache_dir : BOOLEAN]
    /\ doc = <<>>
    /\ template_obj = EmptyDict
    /\ field_specs = <<>>
    /\ pages = <<>>
    /\ futures = <<>>
    /\ chunk_out = <<>>
    /\ llm_result = EmptyDict
    /\ ocr_cache \in InitialCaches
    /\ fill_idx = 0
    /\ hist = <<>>
    /\ arg = ocr_cache
    /\ ret = NoRet

\* gemini.py 45-62: one request
OcrRequest(image, outcome) ==
    /\ driver = "ocr"
    /\ Len(hist) < MaxRequests
    /\ \E r \in {GeminiOcrImage(env.cache_dir, ocr_cache, image, outcome)} :
          /\ ocr_cache' = r.cache
          /\ hist' = Append(hist, [image |-> image, invoked |-> r.backend,
                                   raised |-> r.raised, text |-> r.text])
          /\ ret' = IF r.raised THEN NoRet ELSE Str(r.text)
    /\ UNCHANGED <<driver, pc, env, doc, template_obj, field_specs, pages, futures, chunk_out,
                   llm_result, fill_idx, arg>>

NextOcr == \E image \in OcrImages : \E outcome \in BackendOutcomes : OcrRequest(image, outcome)

SpecOcr == InitOcr /\ [][NextOcr]_vars

\* the requests for image that invoked the backend
Invocations(image) == {n \in 1..Len(hist) : hist[n].image = image /\ hist[n].invoked}

\* the requests before n that left a text for the image of request n in the cache
StoredBefore(n) == {m \in 1..(n - 1) : hist[m].image = hist[n].image /\ ~hist[m].raised}
FirstStored(n) == CHOOSE m \in StoredBefore(n) : \A k \in StoredBefore(n) : m <= k

\* with cache_dir unset every request invokes the backend and nothing is stored
CacheDisabled ==
    ~env.cache_dir =>
        /\ ocr_cache = arg
        /\ \A n \in 1..Len(hist) : hist[n].invoked

\* C12 as stated: with a cache directory the OCR backend is invoked at most once
\* per distinct image content and every later request for the same bytes returns the
\* text stored by the first (an empty transcription included); with cache_dir unset
\* or empty every request invokes the backend.
C12_BackendAtMostOncePerImage ==
    /\ CacheDisabled
    /\ env.cache_dir => \A image \in OcrImages : Cardinality(Invocations(image)) <= 1

\* C12 as amended: with a cache directory, a request for bytes whose text is stored
\* (by an earlier run, or by an earlier request whose backend call returned, an empty
\* transcription included) returns the stored text without invoking the backend, so
\* the backend returns at most once per distinct image content; a backend call that
\* raises stores nothing, and the next request for the same bytes invokes the
\* backend again. With cache_dir unset or empty every request invokes the backend.
C12_StoredTextIsReused ==
    /\ CacheDisabled
    /\ env.cache_dir =>
          /\ \A n \in 1..Len(hist) :
                IF hist[n].image \in DOMAIN arg
                THEN ~hist[n].invoked /\ ~hist[n].raised /\ hist[n].text = arg[hist[n].image]
                ELSE IF StoredBefore(n) # {}
                THEN /\ ~hist[n].invoked /\ ~hist[n].raised
                     /\ hist[n].text = hist[FirstStored(n)].text
                ELSE hist[n].invoked
          /\ \A image \in OcrImages :
                Cardinality({n \in Invocations(image) : ~hist[n].raised}) <= 1

C12_Witness ==
    /\ env.cache_dir
    /\ Len(hist) = 3
    /\ \A n \in 1..3 : hist[n].image = "scan"
    /\ hist[1].raised /\ hist[1].invoked
    /\ hist[2].invoked /\ ~hist[2].raised /\ hist[2].text = ""
    /\ ~hist[3].invoked /\ hist[3].text = ""
    /\ ret = Str("")

(***************************************************************************)
(* Specification SpecLoad: one load_pages_with_ocr call. arg is            *)
(* [doc, max_pages, ocr_all, drv, env, outcomes], ret the result           *)
(* [pages, cache, invoked, backend].                                       *)
(***************************************************************************)
MaxLoadPages == 2

\* a page with a short text layer, surrounded by whitespace
ShortPage == [native |-> " Lot 7 \n", image |-> "lot"]

LoadPageKinds == {ScanPage, ShortPage, TextPage}

LoadDocs ==
    {[pdf |-> TRUE, suffix |-> "pdf", name |-> "acte.pdf",
      native |-> [i \in DOMAIN ps |-> ps[i].native],
      image |-> [i \in DOMAIN ps |-> ps[i].image]] :
        ps \in UNION {[1..n -> LoadPageKinds] : n \in 0..MaxLoadPages}}
    \cup {d \in Docs : ~d.pdf}

\* the OCR callback of each driver: the Gemini one with or without a cache
\* directory, the Mistral one with or without its credential
LoadEnvs ==
    {[drv |-> "gemini", api_key |-> TRUE, cache_dir |-> c] : c \in BOOLEAN}
    \cup {[drv |-> "mistral", api_key |-> k, cache_dir |-> FALSE] : k \in BOOLEAN}

LoadMaxPages == {0, 1, DefaultMaxPages}

InitLoad ==
    /\ OrchIdle
    /\ \E d \in LoadDocs :
          arg \in [doc : {d}, max_pages : LoadMaxPages, ocr_all : BOOLEAN, env : LoadEnvs,
                   outcomes : [DOMAIN d.native -> OcrOutcomes]]
    /\ ret = NoRet

CallLoadPagesWithOcr ==
    /\ driver = "none"
    /\ ret = NoRet
    /\ ret' = LoadPagesWithOcr(arg.doc, arg.max_pages, arg.ocr_all, arg.env.drv, arg.env,
                               <<>>, arg.outcomes)
    /\ UNCHANGED <<arg, orchVars>>

NextLoad == CallLoadPagesWithOcr

SpecLoad == InitLoad /\ [][NextLoad]_vars

\* the native text of page i as load_pages_with_ocr takes it
NativeText(i) == Strip(arg.doc.native[i])

NeedsOcr(i) == arg.ocr_all \/ Len(NativeText(i)) < OcrThreshold

\* the pages of the document that are loaded
LoadedCount ==
    IF arg.max_pages # 0 /\ arg.max_pages < Len(arg.doc.native) THEN arg.max_pages
    ELSE Len(arg.doc.native)

\* an earlier page of this call left the text of the image of page i in the cache
CachedBy(i) ==
    /\ arg.env.drv = "gemini" /\ arg.env.cache_dir
    /\ \E j \in 1..(i - 1) :
          /\ arg.doc.image[j] = arg.doc.image[i]
          /\ NeedsOcr(j)
          /\ arg.outcomes[j].stage = "ok"

\* rendering (or reading) the image of page i, or its OCR callback, raises
OcrRaises(i) ==
    \/ arg.outcomes[i].stage = "render"
    \/ arg.env.drv = "mistral" /\ ~arg.env.api_key
    \/ arg.outcomes[i].stage = "ocr" /\ ~CachedBy(i)

\* C13: page loading never aborts on an OCR failure: in a paginated document a page
\* whose rendering or OCR callback raises is emitted with exactly its native text
\* (the extracted text, stripped), and all following pages up to max_pages are
\* loaded, under their page numbers; for a non-paginated file whose reading or OCR
\* raises the result is the single page (1, "").
C13_LoadNeverAborts ==
    ret # NoRet =>
        IF arg.doc.pdf
        THEN /\ Len(ret.pages) = LoadedCount
             /\ \A i \in 1..LoadedCount :
                   /\ ret.pages[i].no = i
                   /\ (NeedsOcr(i) /\ OcrRaises(i)) => ret.pages[i].text = NativeText(i)
                   /\ ~NeedsOcr(i) => ret.pages[i].text = NativeText(i)
        ELSE /\ Len(ret.pages) = 1
             /\ OcrRaises(1) => ret.pages = <<Page(1, "")>>

C13_Witness ==
    /\ ret # NoRet
    /\ arg.doc.pdf /\ Len(arg.doc.native) = 2
    /\ arg.doc.native[1] = ShortPage.native /\ arg.doc.native[2] = ""
    /\ arg.outcomes[1].stage = "ocr" /\ arg.outcomes[2] = [stage |-> "ok", text |-> "Surface 40 m2"]
    /\ arg.env.drv = "gemini"
    /\ ret.pages = <<Page(1, "Lot 7"), Page(2, "Surface 40 m2")>>

(***************************************************************************)
(* Pass 2 of the Gemini driver, under Spec                                 *)
(***************************************************************************)
\* the FieldSpecs whose value in the result is not found, by the reference predicate
RefMissing(result, specs) ==
    LET NotFound(fs) == ~RefFound(ValueIn(result, fs.path)) IN SelectSeq(specs, NotFound)

\* text[i..j] is a maximal run of letters and digits, longer than three characters
IsToken(text, i, j) ==
    /\ j - i + 1 > 3
    /\ \A k \in i..j : IsAlnum(Ch(text, k))
    /\ i = 1 \/ ~IsAlnum(Ch(text, i - 1))
    /\ j = Len(text) \/ ~IsAlnum(Ch(text, j + 1))

\* a and b are the same text up to the case of their letters
SameFold(a, b) ==
    /\ Len(a) = Len(b)
    /\ \A k \in 1..Len(a) : LowerChar(Ch(a, k)) = LowerChar(Ch(b, k))

\* token occurs in text, in any case
Mentions(text, token) ==
    \E o \in 0..(Len(text) - Len(token)) : SameFold(SubSeq(text, o + 1, o + Len(token)), token)

\* text holds, in any case, a token of label
MentionsTokenOf(text, label) ==
    \E i \in 1..Len(label) : \E j \in i..Len(label) :
        /\ IsToken(label, i, j)
        /\ Mentions(text, SubSeq(label, i, j))

\* the same, computed once for the page texts and the labels of the documents and
\* templates above
KnownTexts ==
    {ScanPage.native, TextPage.native} \cup {o.text : o \in {x \in OcrOutcomes : x.stage = "ok"}}
KnownLabels ==
    UNION {{CollectFields(TemplateOf(t), "")[n].label :
                n \in 1..Len(CollectFields(TemplateOf(t), ""))} : t \in {"carnet", "dta"}}
MentionsKnown == [text \in KnownTexts, label \in KnownLabels |-> MentionsTokenOf(text, label)]

\* the page text holds, in any case, a token of the label of one of the specs
MentionsLabel(text, specs) ==
    \E n \in 1..Len(specs) :
        IF text \in KnownTexts /\ specs[n].label \in KnownLabels
        THEN MentionsKnown[text, specs[n].label]
        ELSE MentionsTokenOf(text, specs[n].label)

RefRelevant(pgs, specs) ==
    LET Relevant(pg) == MentionsLabel(pg.text, specs) IN SelectSeq(pgs, Relevant)

AllChunksMerged ==
    /\ Pass1Over
    /\ hist.merge.n = Len(futures)
    /\ Len(futures) = NChunks(Len(pages), Max1(env.chunk_pages))
    /\ \A i \in DOMAIN futures : \E k \in DOMAIN hist.order : hist.order[k] = i

\* one step of the driver once pass 1 is over, given the fields missing from the
\* result of pass 1 and the pages relevant to them: one call over exactly these if
\* the gate is open, no call and no change of the result otherwise
Pass2Step(missing, relevant) ==
    IF env.second_pass /\ missing # <<>> /\ relevant # <<>>
    THEN /\ hist'.llm_calls = hist.llm_calls + 1
         /\ hist'.pass2 = [called |-> TRUE, missing |-> missing, relevant |-> relevant]
    ELSE /\ hist'.llm_calls = hist.llm_calls
         /\ hist'.pass2 = NoPass2
         /\ llm_result' = llm_result
         /\ pc' = "fill"

\* C14: the Gemini driver issues the pass-2 LLM call only after every pass-1 chunk
\* result has been merged, and only if the second pass is enabled, at least one
\* FieldSpec is not found in the pass-1 result and the relevance filter selects at
\* least one page; it then issues exactly one call, over the missing fields only and
\* the relevant pages only; in every other case no pass-2 call is made.
C14_Pass2GatingAndOrdering ==
    [][driver = "gemini" =>
          /\ hist'.llm_calls # hist.llm_calls =>
                \/ pc \in {"pass1", "aborting"} /\ ~Pass1Over /\ hist'.pass2 = NoPass2
                \/ AllChunksMerged
          /\ (Pass1Over /\ pc' # pc) =>
                \E missing \in {RefMissing(llm_result, field_specs)} :
                    Pass2Step(missing, RefRelevant(pages, missing))
          /\ hist.pass2.called => hist'.llm_calls = hist.llm_calls /\ hist'.pass2 = hist.pass2
      ]_vars

\* pass 2 was called for the one missing field of a two-page document, over its
\* one relevant page, after both chunks were merged
C14_Witness ==
    /\ driver = "gemini" /\ pc = "fill"
    /\ hist.pass2.called
    /\ hist.llm_calls = 3 /\ Len(futures) = 2
    /\ Len(field_specs) = 3 /\ Len(hist.pass2.missing) = 1
    /\ Len(pages) = 2 /\ Len(hist.pass2.relevant) = 1
    /\ hist.merge.n = 3

\* the second pass was enabled and fields were missing, but no page was relevant:
\* no pass-2 call
C14_NoRelevantPage ==
    /\ driver = "gemini" /\ pc = "fill"
    /\ env.second_pass /\ ~hist.pass2.called
    /\ Len(pages) > 0
    /\ Missing(llm_result, field_specs) # <<>>

(***************************************************************************)
(* Specification SpecFlatten: one flatten_pages call                       *)
(***************************************************************************)
MaxChars == 40

\* page numbers: those of a chunk, or of the relevant pages of pass 2
FlatPageNos == {1, 2, 10}
FlatTexts == {"", "  Lot 7\n", "Surface 40 m2 "}

\* the pages numbered by nos, in the order of the document, with any texts
FlatPagesOf(nos) ==
    {[k \in 1..Len(SortedNos) |-> Page(SortedNos[k], texts[k])] :
        SortedNos \in {q \in [1..Cardinality(nos) -> nos] :
                          \A a, b \in DOMAIN q : a < b => q[a] < q[b]},
        texts \in [1..Cardinality(nos) -> FlatTexts]}

FlatPages == UNION {FlatPagesOf(nos) : nos \in SUBSET FlatPageNos}

InitFlatten ==
    /\ OrchIdle
    /\ arg \in [pages : FlatPages, max_chars : 0..MaxChars \cup {DefaultMaxChars}]
    /\ ret = NoRet

CallFlattenPages ==
    /\ driver = "none"
    /\ ret = NoRet
    /\ ret' = Str(FlattenPages(arg.pages, arg.max_chars))
    /\ UNCHANGED <<arg, orchVars>>

NextFlatten == CallFlattenPages

SpecFlatten == InitFlatten /\ [][NextFlatten]_vars

\* the length of the snippet of a page: its header line and its trimmed text line
SnippetLength(pg) == Len("[page ]") + Len(NatToStr(pg.no)) + 1 + Len(Strip(pg.text)) + 1

RECURSIVE CumulativeLength(_, _)
CumulativeLength(pgs, i) ==
    IF i = 0 THEN 0 ELSE CumulativeLength(pgs, i - 1) + SnippetLength(pgs[i])

\* page i is included: the snippets of pages 1..i do not exceed max_chars
Included(i) == CumulativeLength(arg.pages, i) <= arg.max_chars

IncludedCount == Cardinality({i \in DOMAIN arg.pages : Included(i)})

\* the rendering of the first k pages
RECURSIVE Rendered(_, _)
Rendered(pgs, k) ==
    IF k = 0 THEN ""
    ELSE (IF k = 1 THEN "" ELSE Rendered(pgs, k - 1) \o "\n")
         \o "[page " \o NatToStr(pgs[k].no) \o "]\n" \o Strip(pgs[k].text) \o "\n"

\* C15: flatten_pages(pages, max_chars) renders a prefix of the pages in their
\* original order: page i is included iff the cumulative length of the snippets of
\* pages 1..i does not exceed max_chars, and once a page is excluded every later
\* page is omitted, without an error, so that the rendered text may lack pages.
C15_FlattenRendersPrefix ==
    ret # NoRet =>
        /\ \A i \in DOMAIN arg.pages : Included(i) <=> i <= IncludedCount
        /\ ret = Str(Rendered(arg.pages, IncludedCount))

\* the second of three pages does not fit: it and the third, which alone would
\* fit, are left out
C15_Witness ==
    /\ ret = Str("[page 1]\nLot 7\n")
    /\ arg.max_chars = 30
    /\ Len(arg.pages) = 3
    /\ arg.pages[2].text = "Surface 40 m2 "
    /\ arg.pages[3].text = ""

====
